---------------------------- MODULE Spec2Model ----------------------------
(***************************************************************************)
(* Model of the line follower firmware (src/src/line_follower.c): the      *)
(* main polling loop, the position estimator read_qrt_line, the PID step   *)
(* handle_move and the two PWM compare registers that drive the motors.    *)
(*                                                                         *)
(* The target is an 8-bit AVR: int and unsigned int are 16 bits wide,      *)
(* long and unsigned long 32 bits, uint8_t 8 bits, float is IEEE single.   *)
(***************************************************************************)
EXTENDS Integers, Sequences, FiniteSets, TLC

VARIABLES
    pc,             \* position of main's loop: "read", "move" or "delay"
    values,         \* int values[SENSOR_NUM] of main
    last_value,     \* static long last_value of read_qrt_line
    last_error,     \* static int last_error of handle_move
    integral,       \* static long integral of handle_move
    reset_integral, \* static int reset_integral of handle_move
    OCR0A,          \* compare register of the left motor
    OCR2B,          \* compare register of the right motor
    cycle           \* the locals of the last handle_move call (what the
                    \* USART_DEBUG build prints, and the branches it took)

vars == <<pc, values, last_value, last_error, integral, reset_integral,
          OCR0A, OCR2B, cycle>>

---------------------------------------------------------------------------
(* Program constants *)

LEFT_MAX_SPEED == 220
RIGHT_MAX_SPEED == 210
SENSOR_NUM == 6
NOISE_THRESHOLD == 50
ON_TRACK_VALUE == 200
BASE_SPEED == 175
MAX_SPEED == 240
HEUR_OFFSET == 1000
MIDDLE_ERROR == 2500
INTEGRAL_RESET_ITER == 125

\* The gains are floats in the source; here they are exact decimal
\* fractions: KP and KD in units of 10^-5, KI in units of 10^-8.
KP == 5150
KD == 35
KI == 267
KP_KD_UNIT == 100000
KI_UNIT == 100000000

\* Largest reading of the 10-bit ADC.
ADC_MAX == 1023

---------------------------------------------------------------------------
(* Bounds of the model *)

\* Rounding of the single-precision evaluation of the pid expression, in
\* units of 10^-8: the float result lies within this distance of the exact
\* value (three products and two sums of magnitude below 132, each within
\* a few units in the last place of a 24-bit mantissa).
FLOAT_SLACK == 10000

\* Number of control cycles the estimator specification runs.
MaxEstCycles == 3

---------------------------------------------------------------------------
(* Integer widths *)

ToUint8(x) == x % 256

ToUint16(x) == x % 65536

ToInt16(x) == LET m == x % 65536 IN IF m >= 32768 THEN m - 65536 ELSE m

\* Reduction modulo 2^32 of a value below 2^31 in magnitude: the number of
\* whole multiples of 2^32 is taken by two divisions by 2^16.
ToUint32(x) == x - ((x \div 65536) \div 65536) * 65536 * 65536

Sensors == 0 .. (SENSOR_NUM - 1)

---------------------------------------------------------------------------
(* uint8_t clamp(int value, uint8_t min, uint8_t max) *)

clamp(value, min, max) ==
    IF value < min THEN min
    ELSE IF value > max THEN max
    ELSE ToUint8(value)

---------------------------------------------------------------------------
(* read_qrt_line *)

\* The locals of read_qrt_line before the loop.
qrt_locals == [average |-> 0, sum |-> 0, heur_offset |-> 0, on_track |-> FALSE]

\* The test that marks the cycle on-track.
is_on_track(value) == value > ON_TRACK_VALUE

\* is_valid with >= in place of >.
is_valid_at_threshold(value) == value >= NOISE_THRESHOLD

\* The test that admits a reading to the two sums.
is_valid(value) == value > NOISE_THRESHOLD

\* qrt_step with average declared unsigned int instead of unsigned long.
qrt_step_narrow_average(value, l) ==
    [on_track    |-> l.on_track \/ is_on_track(value),
     average     |-> IF is_valid(value)
                     THEN ToUint16(l.average + value * l.heur_offset)
                     ELSE l.average,
     sum         |-> IF is_valid(value)
                     THEN ToUint16(l.sum + value)
                     ELSE l.sum,
     heur_offset |-> ToUint16(l.heur_offset + HEUR_OFFSET)]

\* One iteration of the for loop over the sensors.
qrt_step(value, l) ==
    [on_track    |-> l.on_track \/ is_on_track(value),
     average     |-> IF is_valid(value)
                     THEN ToUint32(l.average + value * l.heur_offset)
                     ELSE l.average,
     sum         |-> IF is_valid(value)
                     THEN ToUint16(l.sum + value)
                     ELSE l.sum,
     heur_offset |-> ToUint16(l.heur_offset + HEUR_OFFSET)]

RECURSIVE qrt_loop(_, _, _)
qrt_loop(vals, i, l) ==
    IF i < SENSOR_NUM
    THEN qrt_loop(vals, i + 1, qrt_step(vals[i], l))
    ELSE l

\* lost_track with <= in place of <.
lost_track_midpoint_low(last) ==
    IF last <= (SENSOR_NUM - 1) * (HEUR_OFFSET \div 2)
    THEN 0
    ELSE (SENSOR_NUM - 1) * HEUR_OFFSET

\* The value returned when the track is lost.
lost_track(last) ==
    IF last < (SENSOR_NUM - 1) * (HEUR_OFFSET \div 2)
    THEN 0
    ELSE (SENSOR_NUM - 1) * HEUR_OFFSET

\* The outcomes of average / sum: the quotient, or anything when sum is 0.
quotients(average, sum) ==
    IF sum # 0 THEN {average \div sum} ELSE {0, 65535, 2147483647}

\* lost_branch storing the boundary it returns.
lost_branch_write_back(last, l) ==
    [ret |-> ToInt16(lost_track(last)), last_value |-> lost_track(last),
     on_track |-> FALSE, average |-> l.average, sum |-> l.sum,
     divided |-> FALSE]

\* The branch taken when no reading is on-track: the boundary is returned
\* and the static last_value is left as it is.
lost_branch(last, l) ==
    [ret |-> ToInt16(lost_track(last)), last_value |-> last,
     on_track |-> FALSE, average |-> l.average, sum |-> l.sum,
     divided |-> FALSE]

\* The results of a call with the readings vals and the static last_value
\* last: the value returned, the new last_value, the accumulators, whether
\* the division was executed.
read_qrt_line(vals, last) ==
    LET l == qrt_loop(vals, 0, qrt_locals) IN
    IF ~l.on_track
    THEN {lost_branch(last, l)}
    ELSE {[ret |-> ToInt16(q), last_value |-> q,
           on_track |-> TRUE, average |-> l.average, sum |-> l.sum,
           divided |-> TRUE] : q \in quotients(l.average, l.sum)}

---------------------------------------------------------------------------
(* handle_move *)

\* reset_guard that zeroes the counter and forgets the integral.
reset_guard_counter_only(ri, integ) ==
    IF ri = INTEGRAL_RESET_ITER
    THEN [reset_integral |-> 0, integral |-> integ, did_reset |-> TRUE]
    ELSE [reset_integral |-> ri, integral |-> integ, did_reset |-> FALSE]

\* reset_guard with > in place of ==.
reset_guard_late(ri, integ) ==
    IF ri > INTEGRAL_RESET_ITER
    THEN [reset_integral |-> 0, integral |-> 0, did_reset |-> TRUE]
    ELSE [reset_integral |-> ri, integral |-> integ, did_reset |-> FALSE]

\* The windup guard at the head of handle_move.
reset_guard(ri, integ) ==
    IF ri = INTEGRAL_RESET_ITER
    THEN [reset_integral |-> 0, integral |-> 0, did_reset |-> TRUE]
    ELSE [reset_integral |-> ri, integral |-> integ, did_reset |-> FALSE]

\* position_error with error left unsigned.
position_error_unsigned(position) == ToUint16(position - MIDDLE_ERROR)

\* int error = position - MIDDLE_ERROR, position an unsigned int.
position_error(position) == ToInt16(ToUint16(position - MIDDLE_ERROR))

\* Truncation toward zero of whole + frac / KI_UNIT.
trunc(whole, frac) ==
    LET fl == whole + (frac \div KI_UNIT) IN
    IF fl >= 0 \/ frac % KI_UNIT = 0 THEN fl ELSE fl + 1

\* int pid = KP * error + KI * integral + KD * (error - last_error): the
\* values the conversion of the float sum to int can give.
pid_values(error, integ, lerr) ==
    LET a    == KP * error + KD * ToInt16(error - lerr)
        qa   == a \div KP_KD_UNIT
        frac == (a % KP_KD_UNIT) * (KI_UNIT \div KP_KD_UNIT) + KI * integ
    IN {trunc(qa, frac - FLOAT_SLACK), trunc(qa, frac + FLOAT_SLACK)}

\* left_duty with the correction subtracted.
left_duty_swapped(pid) == ToUint8(clamp(ToInt16(BASE_SPEED - pid), 0, MAX_SPEED))

\* The duty written to the left motor.
left_duty(pid) == ToUint8(clamp(ToInt16(BASE_SPEED + pid), 0, MAX_SPEED))

\* The duty written to the right motor.
right_duty(pid) == ToUint8(clamp(ToInt16(BASE_SPEED - pid), 0, MAX_SPEED))

\* The value of last_error when handle_move returns.
next_last_error(lerr, error) == lerr

\* The value of reset_integral when handle_move returns.
next_reset_integral(ri) == ToInt16(ri + 1)

\* A whole call of handle_move, the ADC giving the readings adc.
handle_move(adc) ==
    LET g == reset_guard(reset_integral, integral) IN
    \E r \in read_qrt_line(adc, last_value) :
      LET position == ToUint16(r.ret)
          error    == position_error(position)
          integ    == g.integral + error
      IN \E pid \in pid_values(error, integ, last_error) :
           /\ values' = adc
           /\ last_value' = r.last_value
           /\ integral' = integ
           /\ last_error' = next_last_error(last_error, error)
           /\ reset_integral' = next_reset_integral(g.reset_integral)
           /\ OCR0A' = left_duty(pid)
           /\ OCR2B' = right_duty(pid)
           /\ cycle' = [position |-> position, error |-> error, pid |-> pid,
                        on_track |-> r.on_track, average |-> r.average,
                        sum |-> r.sum, divided |-> r.divided,
                        did_reset |-> g.did_reset,
                        integral_in |-> integral,
                        integral_base |-> g.integral]

---------------------------------------------------------------------------
(* The sensor readings the model draws *)

Vec(a, b, c, d, e, f) ==
    [i \in Sensors |-> CASE i = 0 -> a [] i = 1 -> b [] i = 2 -> c
                         [] i = 3 -> d [] i = 4 -> e [] i = 5 -> f]

\* Line under the first sensor, centred, under the last sensor: the
\* errors -MIDDLE_ERROR, 0 and MIDDLE_ERROR.
TrackReadings ==
    { Vec(900, 0, 0, 0, 0, 0),
      Vec(0, 0, 900, 900, 0, 0),
      Vec(0, 0, 0, 0, 0, 900) }

\* The readings of the estimator specification: the thresholds and their
\* neighbours, the extremes of the ADC, every stored side.
EstimatorReadings ==
    TrackReadings \cup
    { Vec(0, 0, 0, 0, 0, 0),
      Vec(50, 50, 50, 50, 50, 50),
      Vec(51, 0, 0, 0, 0, 0),
      Vec(0, 0, 900, 899, 0, 0),
      Vec(0, 0, 899, 900, 0, 0),
      Vec(0, 0, 51, 201, 0, 0),
      Vec(0, 0, 0, 0, 0, ADC_MAX),
      Vec(200, 200, 200, 200, 200, 200),
      Vec(0, 0, 0, 0, 900, 0),
      Vec(0, 900, 0, 0, 0, 0),
      Vec(201, 0, 0, 0, 0, 0),
      Vec(50, 51, 200, 201, 0, 40),
      Vec(0, 0, 0, ADC_MAX, 200, 0),
      Vec(ADC_MAX, ADC_MAX, ADC_MAX, ADC_MAX, ADC_MAX, ADC_MAX) }

---------------------------------------------------------------------------
(* main *)

\* The state when main enters its loop: statics zeroed, engine_init done,
\* values not yet read.
Init ==
    /\ pc = "read"
    /\ values = Vec(0, 0, 0, 0, 0, 0)
    /\ last_value = 0
    /\ last_error = 0
    /\ integral = 0
    /\ reset_integral = 0
    /\ OCR0A = 0
    /\ OCR2B = 0
    /\ cycle = [position |-> 0, error |-> 0, pid |-> 0, on_track |-> FALSE,
                average |-> 0, sum |-> 0, divided |-> FALSE,
                did_reset |-> FALSE, integral_in |-> 0,
                integral_base |-> 0]

\* read_line_input(values) in main.
main_read(R) ==
    /\ pc = "read"
    /\ \E adc \in R : values' = adc
    /\ pc' = "move"
    /\ UNCHANGED <<last_value, last_error, integral, reset_integral,
                   OCR0A, OCR2B, cycle>>

\* handle_move(values) in main.
main_handle_move(R) ==
    /\ pc = "move"
    /\ \E adc \in R : handle_move(adc)
    /\ pc' = "delay"

\* _delay_ms(SLEEP_BETWEEN) in main.
main_delay ==
    /\ pc = "delay"
    /\ pc' = "read"
    /\ UNCHANGED <<values, last_value, last_error, integral, reset_integral,
                   OCR0A, OCR2B, cycle>>

ReadInput == main_read(TrackReadings)
HandleMove == main_handle_move(TrackReadings)
Delay == main_delay

Next == ReadInput \/ HandleMove \/ Delay

Spec == Init /\ [][Next]_vars

\* The first cycles of the loop, with the wider set of readings.
EstReadInput == reset_integral < MaxEstCycles /\ main_read(EstimatorReadings)
EstHandleMove == main_handle_move(EstimatorReadings)
EstDelay == main_delay

NextEst == EstReadInput \/ EstHandleMove \/ EstDelay

SpecEst == Init /\ [][NextEst]_vars

---------------------------------------------------------------------------
(* Properties *)

\* handle_move has just returned.
Returned == pc = "delay"

\* No reading is above ON_TRACK_VALUE.
TrackLost(vals) == \A i \in Sensors : vals[i] <= ON_TRACK_VALUE

\* The sensors whose reading counts in the weighted average.
Qualifying(vals) == {i \in Sensors : vals[i] > NOISE_THRESHOLD}

RECURSIVE SumOf(_, _)
\* The sum of f[i] over the sensors i of S.
SumOf(S, f) ==
    IF S = {} THEN 0
    ELSE LET i == CHOOSE x \in S : TRUE IN f[i] + SumOf(S \ {i}, f)

WeightedSum(vals) ==
    SumOf(Qualifying(vals), [i \in Sensors |-> i * HEUR_OFFSET * vals[i]])

ValueSum(vals) == SumOf(Qualifying(vals), vals)

MaxEstimate == (SENSOR_NUM - 1) * HEUR_OFFSET

\* Line under the first sensor only.
LeftmostOnly(vals) ==
    /\ vals[0] > ON_TRACK_VALUE
    /\ \A i \in Sensors \ {0} : vals[i] <= NOISE_THRESHOLD

\* C1: after every control cycle the duty written to the left motor is
\* within [0, LEFT_MAX_SPEED] and the duty written to the right motor is
\* within [0, RIGHT_MAX_SPEED].
C1_DutyWithinOwnMaximum ==
    Returned => /\ OCR0A \in 0 .. LEFT_MAX_SPEED
                /\ OCR2B \in 0 .. RIGHT_MAX_SPEED

\* C2: after every call of handle_move the stored last_error equals the
\* error computed in that call.
C2_LastErrorIsErrorOfCall ==
    Returned => last_error = cycle.error

\* C3 as stated: the integral is 0 when every INTEGRAL_RESET_ITER-th call
\* has returned.
C3_IntegralZeroAfterNthCall ==
    (Returned /\ reset_integral = INTEGRAL_RESET_ITER) => integral = 0

\* C3 as amended: the integral is set to 0 at the start of the call that
\* follows every INTEGRAL_RESET_ITER-th call, before that call's error is
\* added, whatever the integral held; every other call starts from the
\* integral as the previous call left it.
C3_IntegralResetAtStartOfNextCall ==
    [][pc = "move" =>
         /\ cycle'.did_reset = (reset_integral = INTEGRAL_RESET_ITER)
         /\ cycle'.integral_base =
              IF reset_integral = INTEGRAL_RESET_ITER THEN 0 ELSE integral
         /\ integral' = cycle'.integral_base + cycle'.error]_vars

\* The call after 125 calls of error -MIDDLE_ERROR starts from integral 0.
C3_Witness ==
    /\ Returned
    /\ cycle.did_reset
    /\ cycle.integral_in = -(INTEGRAL_RESET_ITER * MIDDLE_ERROR)
    /\ cycle.integral_base = 0

\* C4: the call that follows INTEGRAL_RESET_ITER calls returns with the
\* integral equal to that call's error alone and the counter equal to 1.
C4_AccumulationRestarts ==
    [][(pc = "move" /\ reset_integral = INTEGRAL_RESET_ITER) =>
         /\ integral' = cycle'.error
         /\ reset_integral' = 1]_vars

\* Scenario D: 125 calls of error MIDDLE_ERROR, then one more.
C4_Witness ==
    /\ Returned
    /\ cycle.did_reset
    /\ cycle.integral_in = INTEGRAL_RESET_ITER * MIDDLE_ERROR
    /\ cycle.error = MIDDLE_ERROR
    /\ integral = MIDDLE_ERROR
    /\ reset_integral = 1

\* C5: a call in which no reading exceeds ON_TRACK_VALUE executes no
\* division and returns 0 if the stored estimate is below the midpoint
\* and (SENSOR_NUM - 1) * HEUR_OFFSET otherwise.
C5_TrackLossBoundary ==
    [][(pc = "move" /\ TrackLost(values')) =>
         /\ ~cycle'.divided
         /\ cycle'.position =
              IF last_value < MaxEstimate \div 2 THEN 0 ELSE MaxEstimate]_vars

\* Track lost with the stored estimate exactly at the midpoint.
C5_Witness ==
    /\ Returned
    /\ TrackLost(values)
    /\ last_value = MaxEstimate \div 2
    /\ cycle.position = MaxEstimate
    /\ ~cycle.divided

\* C6: a track-loss call leaves the stored estimate unchanged, the stored
\* estimate changes only in a call with a reading above ON_TRACK_VALUE,
\* and consecutive track-loss calls return the same boundary.
C6_TrackLossKeepsEstimate ==
    [][/\ (pc = "move" /\ TrackLost(values')) => last_value' = last_value
       /\ last_value' # last_value => (pc = "move" /\ ~TrackLost(values'))
       /\ (pc = "move" /\ reset_integral > 0 /\ ~cycle.on_track
             /\ TrackLost(values'))
            => cycle'.position = cycle.position]_vars

\* Scenario C, twice: stored 4000, then two calls with all readings 0.
C6_Witness ==
    /\ Returned
    /\ reset_integral = 3
    /\ last_value = 4000
    /\ \A i \in Sensors : values[i] = 0
    /\ cycle.position = MaxEstimate

\* C7: the value returned and the value stored lie in
\* [0, (SENSOR_NUM - 1) * HEUR_OFFSET], and the two accumulators hold the
\* sums themselves (no wrap-around).
C7_EstimateInRange ==
    /\ last_value \in 0 .. MaxEstimate
    /\ cycle.position \in 0 .. MaxEstimate
    /\ Returned => /\ cycle.average = WeightedSum(values)
                   /\ cycle.sum = ValueSum(values)

\* Every reading at the top of the ADC range: the largest accumulators.
C7_Witness ==
    /\ Returned
    /\ \A i \in Sensors : values[i] = ADC_MAX
    /\ cycle.average = 15 * HEUR_OFFSET * ADC_MAX
    /\ cycle.sum = SENSOR_NUM * ADC_MAX
    /\ cycle.position = MaxEstimate \div 2

\* C8: with a reading above ON_TRACK_VALUE the estimator returns the
\* integer quotient of the weighted sum by the value sum, both over the
\* sensors whose reading exceeds NOISE_THRESHOLD.
C8_WeightedAverage ==
    (Returned /\ ~TrackLost(values)) =>
        /\ cycle.position = WeightedSum(values) \div ValueSum(values)
        /\ last_value = cycle.position

\* Readings 50 and 40 (noise), 51 and 200 (marginal), 201 (on track).
C8_Witness ==
    /\ Returned
    /\ values[0] = NOISE_THRESHOLD
    /\ values[1] = NOISE_THRESHOLD + 1
    /\ values[2] = ON_TRACK_VALUE
    /\ values[3] = ON_TRACK_VALUE + 1
    /\ values[5] = 40
    /\ cycle.position = 2331

\* C9: with the line under the first sensor only, the estimate is 0, the
\* error is -MIDDLE_ERROR, the correction is negative and the left duty
\* is below the right duty.
C9_LeftmostTurnsLeft ==
    (Returned /\ LeftmostOnly(values)) =>
        /\ cycle.position = 0
        /\ cycle.error = -MIDDLE_ERROR
        /\ cycle.pid < 0
        /\ OCR0A < OCR2B

\* The line jumps to the first sensor with the integral at its largest.
C9_Witness ==
    /\ Returned
    /\ LeftmostOnly(values)
    /\ cycle.integral_base = (INTEGRAL_RESET_ITER - 1) * MIDDLE_ERROR
    /\ OCR0A < OCR2B

\* C10: the error is position - MIDDLE_ERROR and lies in
\* [-MIDDLE_ERROR, MIDDLE_ERROR], the counter lies in
\* 0 .. INTEGRAL_RESET_ITER (1 .. INTEGRAL_RESET_ITER once a call has
\* returned), and |integral| <= INTEGRAL_RESET_ITER * MIDDLE_ERROR.
C10_NumericRanges ==
    /\ reset_integral > 0 => cycle.error = cycle.position - MIDDLE_ERROR
    /\ cycle.error \in -MIDDLE_ERROR .. MIDDLE_ERROR
    /\ reset_integral \in 0 .. INTEGRAL_RESET_ITER
    /\ Returned => reset_integral \in 1 .. INTEGRAL_RESET_ITER
    /\ integral \in -(INTEGRAL_RESET_ITER * MIDDLE_ERROR) ..
                     (INTEGRAL_RESET_ITER * MIDDLE_ERROR)

\* The integral at its bound, after 125 calls of error MIDDLE_ERROR.
C10_Witness ==
    /\ Returned
    /\ reset_integral = INTEGRAL_RESET_ITER
    /\ integral = INTEGRAL_RESET_ITER * MIDDLE_ERROR

=============================================================================
